---- MODULE Spec2Model ----
(***************************************************************************)
(* NatureOSClient (natureos_sdk/client.py) as a state machine.             *)
(*                                                                         *)
(* The client is an asyncio object: a coroutine runs without interruption  *)
(* from one suspension point to the next.  The only suspension points of   *)
(* the client are the awaits on the transport handle (client.get,          *)
(* client.post and aclose); `await self._get_http_client()` awaits a       *)
(* coroutine that contains no await and so never yields.  Every public     *)
(* operation is therefore two atomic steps: the call up to the request     *)
(* being handed to the handle, and the resumption with the response.       *)
(***************************************************************************)
EXTENDS Integers, Sequences, FiniteSets, TLC

\* ------------------------------------------------------------------ bounds
NumTasks == 2          \* coroutines of the caller that use the one client
MaxHandles == 3        \* transport handles that can be created in a run
MaxTicks == 2          \* clock units the clock can advance in a run
MaxDrift == 1          \* clock units the clock can advance between two reads of one call
MaxRetriesBound == 1   \* max_retries is drawn from 0..MaxRetriesBound

\* ------------------------------------------------------- program constants
DefaultMaxRetries == 3
DefaultListLimit == 100
DefaultSensorLimit == 1000
SecondsPer24Hours == 86400

Tasks == 1..NumTasks
Handles == 1..MaxHandles
\* the one coroutine of the sequential caller
SeqTask == CHOOSE t \in Tasks : \A u \in Tasks : t <= u

VARIABLES
    http_client,   \* self._http_client: 0 is None, else the id of a handle
    hstate,        \* each handle: "absent" (not created), "open", "closing", "closed"
    max_retries,   \* self.max_retries
    now,           \* the UTC clock read by datetime.utcnow(), in seconds
    task,          \* each caller coroutine: its position in the call it is making,
                   \* the local `client` while it is suspended, and what the
                   \* caller has seen of the call (request, response, result, log)
    scope          \* the `async with` block of the caller

vars == <<http_client, hstate, max_retries, now, task, scope>>

\* --------------------------------------------------------- python values
None == <<>>
Some(x) == <<x>>

\* truth value of an Optional[str]: None and "" are falsy
TruthyStr(o) == o # None /\ o[1] # ""

\* truth value of an Optional[dict]: None and {} are falsy
TruthyDict(o) == o # None /\ DOMAIN o[1] # {}

\* truth value of an Optional[datetime]: only None is falsy
TruthyTime(o) == o # None

EmptyDict == <<>>

\* dict.update(other): keys of other win
DictUpdate(d, other) ==
    [k \in DOMAIN d \cup DOMAIN other |-> IF k \in DOMAIN other THEN other[k] ELSE d[k]]

\* d[k] = v
DictSet(d, k, v) == DictUpdate(d, k :> v)

\* dict.get(k, default): the default is used only when the key is missing
DictGet(d, k, default) == IF k \in DOMAIN d THEN d[k] ELSE default

\* JSON values of a response body
JNull == <<"null">>
JList(s) == <<"list", s>>
JDict(d) == <<"dict", d>>
NoResult == <<"noresult">>

\* datetime.isoformat(): the date part and the time-of-day part
IsoFormat(t) == <<t \div SecondsPer24Hours, t % SecondsPer24Hours>>

\* the instant an ISO string written by IsoFormat denotes
IsoInstant(s) == s[1] * SecondsPer24Hours + s[2]

\* ------------------------------------------------------------- requests
DeviceId == "dev-1"
NoRequest == [method |-> "NONE", path |-> <<>>, params |-> EmptyDict, json |-> EmptyDict]
Get(path, params) == [method |-> "GET", path |-> path, params |-> params, json |-> EmptyDict]
Post(path, json) == [method |-> "POST", path |-> path, params |-> EmptyDict, json |-> json]

\* ------------------------------------------------------------ responses
ConnectError == 0
StatusCodes == {200, 302, 404, 500}
NoResponse == [status |-> ConnectError, body |-> EmptyDict]

\* response.raise_for_status(): raises for every status outside 2xx
RaiseForStatus(status) == ~(status \in 200..299)

Bodies ==
    { "items" :> JList(<<>>),
      "items" :> JList(<<DeviceId>>),
      "device_id" :> DeviceId,
      "items" :> JNull }

Responses ==
    {[status |-> 200, body |-> b] : b \in Bodies}
    \cup {[status |-> s, body |-> EmptyDict] : s \in StatusCodes \ {200}}
    \cup {NoResponse}

\* ----------------------------------------------------------------- Init
IdleTask ==
    [pc |-> "idle", op |-> "none", args |-> <<>>, client |-> 0, req |-> NoRequest,
     response |-> NoResponse, result |-> NoResult, sent |-> 0, log |-> "none",
     called_at |-> 0]

NoScope == [inside |-> FALSE, fresh |-> FALSE, used |-> FALSE, exc |-> FALSE]

InitWith(retries) ==
    /\ http_client = 0
    /\ hstate = [h \in Handles |-> "absent"]
    /\ max_retries \in retries
    /\ now = SecondsPer24Hours
    /\ task = [t \in Tasks |-> IdleTask]
    /\ scope = NoScope

Init == InitWith({DefaultMaxRetries})

\* a coroutine that is not suspended inside the client can make a call
Idle(t) == task[t].pc \in {"idle", "returned", "raised"}

\* ------------------------------------------------------ _get_http_client
NeedCreateAlways(hc) == TRUE

\* `if self._http_client is None`
NeedCreate(hc) == hc = 0

\* a new AsyncClient object: distinct from every object created so far
NewHandle == CHOOSE h \in Handles : hstate[h] = "absent" /\ \A g \in Handles : hstate[g] = "absent" => h <= g

CanGetHttpClient == NeedCreate(http_client) => \E h \in Handles : hstate[h] = "absent"

get_http_client == IF NeedCreate(http_client) THEN NewHandle ELSE http_client

\* the call of an operation up to its request being handed to the handle:
\* get-or-create the handle, then suspend in client.get / client.post.
\* d is the time the clock advances while the call runs.
Send(t, opname, arguments, request, d) ==
    /\ CanGetHttpClient
    /\ now + d <= SecondsPer24Hours + MaxTicks
    /\ LET h == get_http_client IN
        /\ http_client' = h
        /\ hstate' = IF NeedCreate(http_client) THEN [hstate EXCEPT ![h] = "open"] ELSE hstate
        /\ task' = [task EXCEPT ![t] =
                [pc |-> "awaiting", op |-> opname, args |-> arguments, client |-> h,
                 req |-> request,
                 response |-> NoResponse, result |-> NoResult, sent |-> 1,
                 log |-> "none", called_at |-> now]]
    /\ scope' = IF scope.inside THEN [scope EXCEPT !.used = TRUE] ELSE scope
    /\ now' = now + d
    /\ UNCHANGED max_retries

\* --------------------------------------------- the try/except of each op
AfterResponseRetrying(status, attempts, retries) ==
    IF status # ConnectError /\ ~RaiseForStatus(status) THEN "returned"
    ELSE IF attempts <= retries THEN "resend" ELSE "raised"

AfterResponseClientErrorsOnly(status, attempts, retries) ==
    IF status # ConnectError /\ status < 400 THEN "returned" ELSE "raised"

\* what the operation does with the outcome of its one request: a
\* connection failure and raise_for_status() both raise httpx.HTTPError, which
\* is logged and re-raised; nothing reads max_retries.
AfterResponse(status, attempts, retries) ==
    IF status # ConnectError /\ ~RaiseForStatus(status) THEN "returned" ELSE "raised"

Receive(t, resp, value, info) ==
    /\ task[t].pc = "awaiting"
    /\ LET next == AfterResponse(resp.status, task[t].sent, max_retries) IN
        task' = [task EXCEPT ![t] =
            IF next = "resend" THEN [@ EXCEPT !.sent = @ + 1]
            ELSE IF next = "returned"
                 THEN [@ EXCEPT !.pc = "returned", !.client = 0, !.response = resp,
                                !.result = value, !.log = IF info THEN "info" ELSE "none"]
                 ELSE [@ EXCEPT !.pc = "raised", !.client = 0, !.response = resp,
                                !.log = "error"]]
    /\ UNCHANGED <<http_client, hstate, max_retries, now, scope>>

\* ----------------------------------------------------------- list_devices
ListDevicesParams(device_type, status, limit) ==
    LET p0 == "limit" :> limit
        p1 == IF TruthyStr(device_type) THEN DictSet(p0, "device_type", device_type[1]) ELSE p0
    IN IF TruthyStr(status) THEN DictSet(p1, "status", status[1]) ELSE p1

list_devices(t, device_type, status, limit) ==
    /\ Idle(t)
    /\ Send(t, "list_devices", <<device_type, status, limit>>,
            Get(<<"devices">>, ListDevicesParams(device_type, status, limit)), 0)

list_devices_resume(t, resp) ==
    /\ task[t].op = "list_devices"
    /\ Receive(t, resp, DictGet(resp.body, "items", JList(<<>>)), FALSE)

\* ------------------------------------------------------------- get_device
get_device(t, device_id) ==
    /\ Idle(t)
    /\ Send(t, "get_device", <<device_id>>, Get(<<"devices", device_id>>, EmptyDict), 0)

get_device_resume(t, resp) ==
    /\ task[t].op = "get_device"
    /\ Receive(t, resp, JDict(resp.body), FALSE)

\* -------------------------------------------------------- register_device
RegisterPayload(device_id, name, device_type, location, metadata) ==
    LET p0 == ("device_id" :> device_id) @@ ("name" :> name) @@ ("device_type" :> device_type)
        p1 == IF TruthyDict(location) THEN DictSet(p0, "location", location[1]) ELSE p0
    IN IF TruthyDict(metadata) THEN DictSet(p1, "metadata", metadata[1]) ELSE p1

RegisterRequest(device_id, name, device_type, location, metadata) ==
    Post(<<"devices", "register">>, RegisterPayload(device_id, name, device_type, location, metadata))

register_device(t, device_id, name, device_type, location, metadata) ==
    /\ Idle(t)
    /\ Send(t, "register_device", <<device_id, name, device_type, location, metadata>>,
            RegisterRequest(device_id, name, device_type, location, metadata), 0)

register_device_resume(t, resp) ==
    /\ task[t].op \in {"register_device", "register_mycobrain_device"}
    /\ Receive(t, resp, JDict(resp.body), TRUE)

\* -------------------------------------------------------- get_sensor_data
\* the two reads of the clock: the first for start_time, the second, d later,
\* for end_time
SensorParams(sensor_type, start_time, end_time, limit, d) ==
    LET p0 == "limit" :> limit
        p1 == IF TruthyStr(sensor_type) THEN DictSet(p0, "sensor_type", sensor_type[1]) ELSE p0
        p2 == IF TruthyTime(start_time)
              THEN DictSet(p1, "start_time", IsoFormat(start_time[1]))
              ELSE DictSet(p1, "start_time", IsoFormat(now - SecondsPer24Hours))
    IN IF TruthyTime(end_time)
       THEN DictSet(p2, "end_time", IsoFormat(end_time[1]))
       ELSE DictSet(p2, "end_time", IsoFormat(now + d))

get_sensor_data(t, device_id, sensor_type, start_time, end_time, limit, d) ==
    /\ Idle(t)
    /\ Send(t, "get_sensor_data", <<device_id, sensor_type, start_time, end_time, limit>>,
            Get(<<"devices", device_id, "sensor-data">>,
                SensorParams(sensor_type, start_time, end_time, limit, d)), d)

get_sensor_data_resume(t, resp) ==
    /\ task[t].op = "get_sensor_data"
    /\ Receive(t, resp, DictGet(resp.body, "items", JList(<<>>)), FALSE)

\* ----------------------------------------------------------- send_command
CommandPayload(command_type, parameters) ==
    ("command_type" :> command_type) @@ ("parameters" :> parameters)

send_command(t, device_id, command_type, parameters) ==
    /\ Idle(t)
    /\ Send(t, "send_command", <<device_id, command_type, parameters>>,
            Post(<<"devices", device_id, "commands">>, CommandPayload(command_type, parameters)), 0)

send_command_resume(t, resp) ==
    /\ task[t].op = "send_command"
    /\ Receive(t, resp, JDict(resp.body), TRUE)

\* ---------------------------------------------- register_mycobrain_device
MycobrainMetadata(serial_number, firmware_version, metadata) ==
    LET device_metadata ==
            ("serial_number" :> serial_number) @@ ("firmware_version" :> firmware_version)
            @@ ("device_type" :> "mycobrain")
    IN IF TruthyDict(metadata) THEN DictUpdate(device_metadata, metadata[1]) ELSE device_metadata

\* delegates to register_device, whose code sends the request and resumes
register_mycobrain_device(t, device_id, serial_number, name, firmware_version, location, metadata) ==
    /\ Idle(t)
    /\ Send(t, "register_mycobrain_device",
            <<device_id, serial_number, name, firmware_version, location, metadata>>,
            RegisterRequest(device_id, name, "mycobrain", location,
                            Some(MycobrainMetadata(serial_number, firmware_version, metadata))), 0)

\* ------------------------------------------------------------------ close
HasHandleNever(hc) == FALSE

\* `if self._http_client`
HasHandle(hc) == hc # 0

ClearedKeepsHandle(hc) == hc

\* `self._http_client = None`
Cleared(hc) == 0

\* close up to its suspension in aclose(), or all of it when there is no handle
CloseCall(t, opname) ==
    /\ Idle(t)
    /\ IF HasHandle(http_client)
       THEN /\ hstate' = [hstate EXCEPT ![http_client] = IF @ = "open" THEN "closing" ELSE @]
            /\ task' = [task EXCEPT ![t] =
                    [IdleTask EXCEPT !.pc = "awaiting_close", !.op = opname,
                                     !.client = http_client, !.called_at = now]]
       ELSE /\ hstate' = hstate
            /\ task' = [task EXCEPT ![t] =
                    [IdleTask EXCEPT !.pc = "returned", !.op = opname, !.called_at = now]]
    /\ UNCHANGED <<http_client, max_retries, now>>

\* aclose() has returned: the handle is closed and the reference is cleared
CloseResume(t, opname) ==
    /\ task[t].pc = "awaiting_close"
    /\ task[t].op = opname
    /\ hstate' = [hstate EXCEPT ![task[t].client] = "closed"]
    /\ http_client' = Cleared(http_client)
    /\ task' = [task EXCEPT ![t] = [@ EXCEPT !.pc = "returned", !.client = 0]]
    /\ UNCHANGED <<max_retries, now>>

close(t) == CloseCall(t, "close") /\ UNCHANGED scope

close_resume(t) == CloseResume(t, "close") /\ UNCHANGED scope

\* --------------------------------------------------- __aenter__ / __aexit__
\* entering the `async with` block: returns self, changes nothing of the client
aenter(t) ==
    /\ Idle(t)
    /\ ~scope.inside
    /\ scope' = [inside |-> TRUE, fresh |-> http_client = 0, used |-> FALSE, exc |-> FALSE]
    /\ task' = [task EXCEPT ![t] = [IdleTask EXCEPT !.pc = "returned", !.op = "__aenter__",
                                                     !.called_at = now]]
    /\ UNCHANGED <<http_client, hstate, max_retries, now>>

\* leaving the block, normally or with the exception of the last operation
aexit(t) ==
    /\ scope.inside
    /\ CloseCall(t, "__aexit__")
    /\ scope' = [scope EXCEPT !.exc = task[t].pc = "raised",
                              !.inside = HasHandle(http_client)]

aexit_resume(t) ==
    /\ CloseResume(t, "__aexit__")
    /\ scope' = [scope EXCEPT !.inside = FALSE]

\* time passes between calls
Tick ==
    /\ now < SecondsPer24Hours + MaxTicks
    /\ now' = now + 1
    /\ UNCHANGED <<http_client, hstate, max_retries, task, scope>>

\* ------------------------------------------------- arguments of the caller
DeviceTypeFilters == {None, Some("mycobrain")}
StatusFilters == {None, Some("online")}
Locations == {None, Some(("lat" :> 1) @@ ("lon" :> 2))}
RegisterMetadatas == {None, Some(EmptyDict), Some("site" :> "lab")}
Metadatas ==
    { None, Some(EmptyDict), Some("site" :> "lab"), Some("device_type" :> "sensor"),
      Some(("device_type" :> "mycobrain") @@ ("serial_number" :> "SN-2")) }
StartTimes == {None, Some(SecondsPer24Hours - 10)}
EndTimes == {None, Some(SecondsPer24Hours + 1)}
CommandParameters == {EmptyDict, "level" :> 1}

\* ------------------------------------------------------------------ Spec
\* Coroutines of the caller use the one client concurrently; any of them may
\* call any operation or close() whenever it is not itself suspended.  The
\* arguments and the clock are fixed: the interleaving is what varies.
ConcurrentResponses ==
    {[status |-> 200, body |-> "items" :> JList(<<DeviceId>>)], [status |-> 500, body |-> EmptyDict],
     NoResponse}

Next ==
    \E t \in Tasks :
        \/ list_devices(t, None, None, DefaultListLimit)
        \/ get_device(t, DeviceId)
        \/ register_device(t, DeviceId, "probe", "sensor", None, None)
        \/ get_sensor_data(t, DeviceId, None, None, None, DefaultSensorLimit, 0)
        \/ send_command(t, DeviceId, "reboot", EmptyDict)
        \/ register_mycobrain_device(t, DeviceId, "SN-1", "brain", "1.0", None, None)
        \/ \E r \in ConcurrentResponses :
            \/ list_devices_resume(t, r)
            \/ get_device_resume(t, r)
            \/ register_device_resume(t, r)
            \/ get_sensor_data_resume(t, r)
            \/ send_command_resume(t, r)
        \/ close(t)
        \/ close_resume(t)

Spec == Init /\ [][Next]_vars

\* --------------------------------------------------------------- SeqSpec
\* One coroutine uses the client, one call after the other, inside and
\* outside an `async with` block, with every argument, response and clock
\* reading of the sets above.
SeqInit == InitWith(0..MaxRetriesBound \cup {DefaultMaxRetries})

SeqCall(t) ==
    \/ \E dt \in DeviceTypeFilters, st \in StatusFilters : list_devices(t, dt, st, DefaultListLimit)
    \/ get_device(t, DeviceId)
    \/ \E loc \in Locations, md \in RegisterMetadatas :
        register_device(t, DeviceId, "probe", "sensor", loc, md)
    \/ \E s \in StartTimes, e \in EndTimes, d \in 0..MaxDrift :
        get_sensor_data(t, DeviceId, Some("temperature"), s, e, DefaultSensorLimit, d)
    \/ \E p \in CommandParameters : send_command(t, DeviceId, "reboot", p)
    \/ \E md \in Metadatas :
        register_mycobrain_device(t, DeviceId, "SN-1", "brain", "1.0", None, md)

SeqResume(t) ==
    \E r \in Responses :
        \/ list_devices_resume(t, r)
        \/ get_device_resume(t, r)
        \/ register_device_resume(t, r)
        \/ get_sensor_data_resume(t, r)
        \/ send_command_resume(t, r)

SeqNext ==
    \/ SeqCall(SeqTask)
    \/ SeqResume(SeqTask)
    \/ close(SeqTask)
    \/ close_resume(SeqTask)
    \/ aenter(SeqTask)
    \/ aexit(SeqTask)
    \/ aexit_resume(SeqTask)
    \/ Tick

SeqSpec == SeqInit /\ [][SeqNext]_vars

\* ---------------------------------------------------------------- claims
NetworkOps ==
    {"list_devices", "get_device", "register_device", "get_sensor_data", "send_command",
     "register_mycobrain_device"}

Unclosed == {h \in Handles : hstate[h] \in {"open", "closing"}}
Created == {h \in Handles : hstate[h] # "absent"}

\* C1: in every reachable state, under every interleaving of operations and
\* close(), at most one transport handle has been created and not yet closed.
C1_AtMostOneUnclosedHandle == Cardinality(Unclosed) <= 1

\* C2: while no close() has started on any handle, concurrent operations on a
\* fresh client create the handle exactly once and every request in flight is
\* on that one handle, the one the client stores.
C2_CreatedOnceUnderConcurrentFirstUse ==
    (\A h \in Handles : hstate[h] \in {"absent", "open"}) =>
        /\ Cardinality(Created) <= 1
        /\ \A t \in Tasks :
            task[t].pc = "awaiting" =>
                /\ Created = {task[t].client}
                /\ http_client = task[t].client

C2_Witness ==
    /\ \A h \in Handles : hstate[h] \in {"absent", "open"}
    /\ task[1].pc = "awaiting"
    /\ task[2].pc = "awaiting"
    /\ task[1].client = task[2].client
    /\ Created = {task[1].client}

\* C3: used sequentially, close() never raises and leaves the handle reference
\* absent with no handle left unclosed, however often it is called; the first
\* operation after it creates a handle that did not exist before, stores it
\* and sends its request through it.
C3_CloseIdempotentAndReversible ==
    /\ [](task[SeqTask].op = "close" =>
            /\ task[SeqTask].pc # "raised"
            /\ task[SeqTask].pc = "returned" => (http_client = 0 /\ Unclosed = {}))
    /\ [][(/\ task[SeqTask].op = "close"
           /\ task[SeqTask].pc = "returned"
           /\ task'[SeqTask].pc = "awaiting")
          => (/\ hstate[task'[SeqTask].client] = "absent"
              /\ hstate'[task'[SeqTask].client] = "open"
              /\ http_client' = task'[SeqTask].client)]_vars

C3_Witness ==
    /\ task[SeqTask].pc = "awaiting"
    /\ task[SeqTask].client = 2
    /\ hstate[1] = "closed"
    /\ hstate[2] = "open"

C5_Non2xxRaisesAndReturnsNothing ==
    \A t \in Tasks :
        (task[t].op \in NetworkOps /\ task[t].pc \in {"returned", "raised"}) =>
            /\ (task[t].response.status # ConnectError /\ task[t].response.status \notin 200..299)
                => (task[t].pc = "raised" /\ task[t].result = NoResult /\ task[t].log # "info")
            /\ task[t].pc = "raised" => task[t].result = NoResult

C5_Witness ==
    /\ task[SeqTask].op = "send_command"
    /\ task[SeqTask].pc = "raised"
    /\ task[SeqTask].response.status = 404
    /\ task[SeqTask].log = "error"

C7_MycobrainDeviceTypeFixed ==
    \A t \in Tasks :
        task[t].op = "register_mycobrain_device" =>
            /\ task[t].req.json["device_type"] = "mycobrain"
            /\ task[t].req.json["metadata"]["device_type"] = "mycobrain"

\* the response lists no device
NoDevices(body) == "items" \notin DOMAIN body \/ body["items"] \in {JNull, JList(<<>>)}

\* C8: list_devices that returned on a 2xx response returned a sequence, never
\* null, and the empty sequence when the response lists no device.
C8_ListDevicesNeverNull ==
    \A t \in Tasks :
        (task[t].op = "list_devices" /\ task[t].pc = "returned") =>
            /\ task[t].result # JNull
            /\ task[t].result[1] = "list"
            /\ NoDevices(task[t].response.body) => task[t].result = JList(<<>>)

DefaultWindow(c) == c.op = "get_sensor_data" /\ c.args[3] = None /\ c.args[4] = None
StartOf(c) == IsoInstant(c.req.params["start_time"])
EndOf(c) == IsoInstant(c.req.params["end_time"])

\* C9: a get_sensor_data call without start_time and end_time sends end_time =
\* the time of the call and start_time = end_time - 24 hours; a second such
\* call one clock unit after the first sends both shifted by that unit.
C9_DefaultWindowIs24Hours ==
    [][(/\ task'[SeqTask].pc = "awaiting"
        /\ task[SeqTask].pc # "awaiting"
        /\ DefaultWindow(task'[SeqTask]))
       => (/\ EndOf(task'[SeqTask]) = now
           /\ StartOf(task'[SeqTask]) = EndOf(task'[SeqTask]) - SecondsPer24Hours
           /\ (DefaultWindow(task[SeqTask]) /\ now = task[SeqTask].called_at + 1)
                => (/\ StartOf(task'[SeqTask]) = StartOf(task[SeqTask]) + 1
                    /\ EndOf(task'[SeqTask]) = EndOf(task[SeqTask]) + 1))]_vars

\* C10: every request in flight is on a handle on which no close has started.
C10_NoRequestOnClosingHandle ==
    \A t \in Tasks : task[t].pc = "awaiting" => hstate[task[t].client] = "open"

====
